---- MODULE Spec2Model ----
(***************************************************************************)
(* PreCompDynamicBIER (bier_local_precomputed.py): the precompute queues,  *)
(* their consumption counters and the retraining scheduler of replay().    *)
(*                                                                         *)
(* A transition is identified by its arrival number 1, 2, ...; slot s of   *)
(* the circular buffer holds the latest transition written to it.  The     *)
(* queue arrays of a slot are all written together by one fitting round,   *)
(* so the queue of a slot is represented by the arrival number of the      *)
(* transition it was precomputed for (0: zeros, never written).            *)
(***************************************************************************)
EXTENDS Integers, Sequences, FiniteSets

\* ---------------------------------------------------------------- bounds
BufferSize == 2
MaxAdded == 4
ReplayBatchSize == 3
MaxQueueSize == 2
MaxQueueTrainSize == 4
MaxReplayStarts == 3

VARIABLES
    queue_size,              \* configuration: precompute depth per slot
    queue_train_size,        \* configuration: max slots fit per round
    replay_starts,           \* configuration: adds needed before replay
    composite_kernel,        \* configuration: separate state/action kernels
    kernel,                  \* configuration: kernel family
    mean_type,               \* configuration: mean function
    interp_mode,             \* configuration: use_smote / use_mixup / neither
    kneighbors,              \* configuration: length of a neighbor list
    furthest_neighbor,       \* configuration: << >> (None) or << bound >>
    use_delta,               \* configuration: the model predicts a delta
    num_added,               \* base buffer: transitions added so far
    total_sample_count,      \* base buffer: number of valid slots
    newest_idx,              \* base buffer: slot of the latest transition
    replace_mask,            \* neighbor-change mask (set of flagged slots)
    check_update_neighbors,  \* a transition was added since the last pass
    initialized,             \* run_init has allocated the arrays
    counter,                 \* per-slot consumption counter
    queue_obs,               \* per-slot queue: transition it was fit for
    queue_neighbor_idx,      \* per-slot neighbor draw: transition drawn for
    hyperparameter_storage_set,  \* the q_* tables have been allocated
    q_hyper,                 \* the q_* tables: attribute -> slot -> value
    pc,                      \* position inside replay()
    sample_indices,          \* slots drawn for this step
    train_idx,               \* cursor of the chunking loops
    neighbor_retrain_idx,    \* flagged slots, ascending (replay local)
    all_idx,                 \* slots of the last neighbor round
    rounds,                  \* history: fitting rounds of this call
    counter_resolved,        \* history: counters when offsets were resolved
    offsets,                 \* history: offsets before the modulo wrap
    sample_idx,              \* offsets used to read the queues
    served,                  \* history: transition each read entry was fit for
    warned,                  \* the too-many-repeats warning was printed
    outcome,                 \* how the call ended
    replayed_at,             \* history: num_added when the last step ended
    storage_config,          \* history: configuration the tables were made for
    consumed,                \* history: per slot, offsets served since its refill
    n_at_init,               \* history: total_sample_count when run_init ran
    params,                  \* SpecStore: hyperparameters of the model saved
    loaded,                  \* SpecStore: result of the last load
    q_before,                \* SpecStore: the tables before the last save
    last_op,                 \* SpecStore: the last save or load
    queue_B,                 \* SpecQueue: per slot, the coefficients b
    queue_fill,              \* SpecQueue: per entry, the retrain that wrote it
    filled_at,               \* SpecQueue: per slot, its retrains so far
    fills,                   \* SpecQueue: fills so far
    interp_indices,          \* SpecDraw: slot -> positions drawn and stored
    last_draw,               \* SpecDraw: the last neighbor draw
    queue_entry,             \* SpecInterp: the last queue entry computed
    unnormalized_weights,    \* SpecWeights: the weights read for a batch
    normalizing_factor,      \* SpecWeights: << numerator, denominator >>
    robust_weights           \* SpecWeights: the weights returned

config == << queue_size, queue_train_size, replay_starts, composite_kernel,
            kernel, mean_type, interp_mode, kneighbors, furthest_neighbor,
            use_delta >>
base == << num_added, total_sample_count, newest_idx >>
history == << counter_resolved, offsets, sample_idx, served, warned >>
fitted == << queue_obs, queue_neighbor_idx, hyperparameter_storage_set,
            q_hyper, storage_config, consumed, n_at_init >>
store_state == << params, loaded, q_before, last_op >>
sample_state == << interp_indices, last_draw, queue_entry,
                  unnormalized_weights, normalizing_factor, robust_weights >>
queue_state == << queue_B, queue_fill, filled_at, fills, sample_state >>
replay_state == << replace_mask, check_update_neighbors, initialized, counter,
                  pc, sample_indices, train_idx, neighbor_retrain_idx,
                  all_idx, rounds, outcome, replayed_at >>

vars == << config, base, history, fitted, store_state, queue_state,
          replay_state >>

Slots == 0 .. (BufferSize - 1)

Min(a, b) == IF a < b THEN a ELSE b
Max(a, b) == IF a > b THEN a ELSE b

\* The valid slots 0 .. total_sample_count - 1.
Valid(n) == 0 .. (n - 1)

\* The transition held by slot s after n adds (0: none yet).
Occupant(s, n) ==
    LET ids == { t \in 1 .. n : (t - 1) % BufferSize = s }
    IN  IF ids = {} THEN 0 ELSE CHOOSE t \in ids : \A u \in ids : u <= t

\* Mutant of Sentinel: counters start at 0 instead of queue_size + 1.
SentinelZero(qs) == 0

\* np.full(buffer_size, queue_size + 1)
Sentinel(qs) == qs + 1

\* np.nonzero: the members of S in ascending order.
RECURSIVE Ascending(_)
Ascending(S) ==
    IF S = {} THEN << >>
    ELSE LET m == CHOOSE x \in S : \A y \in S : x <= y
         IN  << m >> \o Ascending(S \ {m})

\* Mutant of ChunkEnd: the chunk is empty and the cursor does not move.
ChunkEndStuck(idx_start, qts, total) == idx_start

\* Mutant of ChunkEnd: the min with the total is forgotten.
ChunkEndNoMin(idx_start, qts, total) == qts + idx_start

\* idx_end = min(queue_train_size + idx_start, total_n_to_train)
ChunkEnd(idx_start, qts, total) == Min(qts + idx_start, total)

\* remaining_idx = max(queue_train_size - idx.size, 0)
Remaining(qts, size) == Max(qts - size, 0)

\* np.argpartition(counter[:n], -k)[-k:]: any k valid slots none of whose
\* counters is below the counter of a valid slot left out.
KLargest(c, n, k) ==
    { F \in SUBSET Valid(n) :
        /\ Cardinality(F) = k
        /\ \A a \in F : \A b \in Valid(n) \ F : c[a] >= c[b] }

\* np.argpartition raises ValueError when kth = -k is out of bounds.
ArgpartitionRaises(n, k) == k > n

\* Mutant of RepeatTracker: repeats[idx] is never incremented.
RepeatTrackerNoIncrement(si) == [ i \in DOMAIN si |-> 0 ]

\* repeat_tracker[i]: how often sample_indices[i] occurred before position i.
RepeatTracker(si) ==
    [ i \in DOMAIN si |->
        Cardinality({ j \in DOMAIN si : j < i /\ si[j] = si[i] }) ]

\* counter[sample_indices] + repeat_tracker
CounterIdx(c, si) ==
    [ i \in DOMAIN si |-> c[si[i]] + RepeatTracker(si)[i] ]

\* out_of_samples = counter_idx >= queue_size
OutOfSamples(c, si, qs) == { i \in DOMAIN si : CounterIdx(c, si)[i] >= qs }

\* Mutant of Wrap: offsets past the queue are not rolled over.
WrapNone(x, qs) == x

\* sample_idx[too_many] = sample_idx[too_many] % queue_size
Wrap(x, qs) == IF x >= qs THEN x % qs ELSE x

\* np.unique(sample_indices, return_counts=True)
UniqueIdx(si) == { si[i] : i \in DOMAIN si }
Bincount(si, s) == Cardinality({ i \in DOMAIN si : si[i] = s })

\* Mutant of ResetCounters: every counter is reset, not only those of idx.
ResetCountersAll(c, idx) == [ s \in DOMAIN c |-> 0 ]

\* self.counter[idx] = 0
ResetCounters(c, idx) == [ s \in DOMAIN c |-> IF s \in idx THEN 0 ELSE c[s] ]

\* Mutant of AdvanceCounters: the counters are not advanced.
AdvanceCountersNone(c, si) == c

\* Mutant of AdvanceCounters: self.counter[self.sample_indices] += 1, which
\* numpy applies once per distinct slot.
AdvanceCountersOnce(c, si) ==
    [ s \in DOMAIN c |->
        IF \E i \in DOMAIN si : si[i] = s THEN c[s] + 1 ELSE c[s] ]

\* self.counter[unique_idx] = np.add(self.counter[unique_idx], bincounts)
AdvanceCounters(c, si) ==
    [ s \in DOMAIN c |->
        IF s \in UniqueIdx(si) THEN c[s] + Bincount(si, s) ELSE c[s] ]

\* Mutant of ClearedMask: the mask is not reset after the neighbor loop.
KeptMask(mask) == mask

\* self.replace_mask = np.zeros(self.replace_mask.shape)
ClearedMask(mask) == {}

\* -------------------------------------------------- hyperparameter store
\* A stored value is a pair << parameter name, number >>; the zeros a table
\* is allocated with are << "zeros", 0 >>.
Kernels == { "rq", "rbf" }
MeanTypes == { "zero", "linear", "constant" }
Zeros == << "zeros", 0 >>
EmptyTables == [ a \in {} |-> Zeros ]

\* init_hyperparam_storage(): the tables allocated, each with the parameter
\* name whose shape it takes, in statement order.
InitEntries(comp, kern, mean) ==
    (IF comp
     THEN << << "q_lengthscale_state", "state_base_kernel.lengthscale" >>,
             << "q_lengthscale_action", "action_base_kernel.lengthscale" >>,
             << "q_raw_lengthscale_state",
                "state_base_kernel.raw_lengthscale" >>,
             << "q_raw_lengthscale_action",
                "action_base_kernel.raw_lengthscale" >> >>
     ELSE << << "q_lengthscale", "covar_module.base_kernel.lengthscale" >>,
             << "q_raw_lengthscale",
                "covar_module.base_kernel.raw_lengthscale" >> >>)
    \o << << "q_covar_noise", "likelihood.noise_covar.noise" >>,
          << "q_outputscale", "covar_module.outputscale" >>,
          << "q_raw_noise", "likelihood.noise_covar.raw_noise" >> >>
    \o (IF kern = "rq"
        THEN IF comp
             THEN << << "q_alpha_state",
                        "covar_module.state_base_kernel.alpha" >>,
                     << "q_alpha_action",
                        "covar_module.action_base_kernel.alpha" >> >>
             ELSE << << "q_alpha", "covar_module.base_kernel.alpha" >> >>
        ELSE << >>)
    \o (IF mean = "linear"
        THEN << << "q_mean_weights", "mean_module.weights" >>,
                << "q_mean_bias", "mean_module.bias" >> >>
        ELSE IF mean = "constant"
             THEN << << "q_mean_constant", "mean_module.constant" >> >>
             ELSE << >>)

\* set_update_hyperparams(): the assignments self.<table>[idx, ...] =
\* params[<name>], in statement order.
SaveEntries(comp, kern, mean) ==
    (IF comp
     THEN << << "q_lengthscale_state", "state_base_kernel.lengthscale" >>,
             << "q_lengthscale_action", "action_base_kernel.lengthscale" >>,
             << "q_raw_lengthscale_state",
                "state_base_kernel.raw_lengthscale" >>,
             << "q_raw_lengthscale_action",
                "action_base_kernel.raw_lengthscale" >> >>
     ELSE << << "q_lengthscale", "covar_module.base_kernel.lengthscale" >>,
             << "q_raw_lengthscale",
                "covar_module.base_kernel.raw_lengthscale" >> >>)
    \o << << "q_covar_noise", "likelihood.noise_covar.noise" >>,
          << "q_outputscale", "covar_module.outputscale" >>,
          << "q_raw_noise", "likelihood.noise_covar.raw_noise" >> >>
    \o (IF kern = "rq"
        THEN IF comp
             THEN << << "q_alpha_state",
                        "covar_module.state_base_kernel.alpha" >>,
                     << "q_alpha_action",
                        "covar_module.action_base_kernel.alpha" >> >>
             ELSE << << "q_alpha", "covar_module.base_kernel.alpha" >> >>
        ELSE << >>)
    \o (IF mean = "linear"
        THEN << << "q_mean_weights", "mean_module.weights" >>,
                << "q_mean_bias", "mean_module.bias" >> >>
        ELSE IF mean = "constant"
             THEN << << "q_mean_constant", "mean_module.constant" >> >>
             ELSE << >>)

\* Mutant of LoadEntries: the state and action lengthscales are read from
\* each other's table.
LoadEntriesSwapped(comp, kern, mean) ==
    (IF comp
     THEN << << "state_base_kernel.lengthscale", "q_lengthscale_action" >>,
             << "action_base_kernel.lengthscale", "q_lengthscale_state" >>,
             << "state_base_kernel.raw_lengthscale",
                "q_raw_lengthscale_state" >>,
             << "action_base_kernel.raw_lengthscale",
                "q_raw_lengthscale_action" >> >>
     ELSE << << "covar_module.base_kernel.lengthscale", "q_lengthscale" >>,
             << "covar_module.base_kernel.raw_lengthscale",
                "q_raw_lengthscale" >> >>)
    \o << << "likelihood.noise_covar.noise", "q_covar_noise" >>,
          << "covar_module.outputscale", "q_outputscale" >>,
          << "likelihood.noise_covar.raw_noise", "q_raw_noise" >> >>
    \o (IF kern = "rq"
        THEN IF comp
             THEN << << "covar_module.state_base_kernel.alpha",
                        "q_alpha_state" >>,
                     << "covar_module.action_base_kernel.alpha",
                        "q_alpha_action" >> >>
             ELSE << << "covar_module.base_kernel.alpha", "q_alpha" >> >>
        ELSE << >>)
    \o (IF mean = "linear"
        THEN << << "mean_module.weights", "q_mean_weights" >>,
                << "mean_module.bias", "q_mean_bias" >> >>
        ELSE IF mean = "constant"
             THEN << << "mean_module.constant", "q_mean_constant" >> >>
             ELSE << >>)

\* Mutant of LoadEntries: the mean parameters are not read back.
LoadEntriesNoMean(comp, kern, mean) ==
    (IF comp
     THEN << << "state_base_kernel.lengthscale", "q_lengthscale_state" >>,
             << "action_base_kernel.lengthscale", "q_lengthscale_action" >>,
             << "state_base_kernel.raw_lengthscale",
                "q_raw_lengthscale_state" >>,
             << "action_base_kernel.raw_lengthscale",
                "q_raw_lengthscale_action" >> >>
     ELSE << << "covar_module.base_kernel.lengthscale", "q_lengthscale" >>,
             << "covar_module.base_kernel.raw_lengthscale",
                "q_raw_lengthscale" >> >>)
    \o << << "likelihood.noise_covar.noise", "q_covar_noise" >>,
          << "covar_module.outputscale", "q_outputscale" >>,
          << "likelihood.noise_covar.raw_noise", "q_raw_noise" >> >>
    \o (IF kern = "rq"
        THEN IF comp
             THEN << << "covar_module.state_base_kernel.alpha",
                        "q_alpha_state" >>,
                     << "covar_module.action_base_kernel.alpha",
                        "q_alpha_action" >> >>
             ELSE << << "covar_module.base_kernel.alpha", "q_alpha" >> >>
        ELSE << >>)

\* load_hyperparams(): the assignments params[<name>] = self.<table>[idx,
\* ...], in statement order.
LoadEntries(comp, kern, mean) ==
    (IF comp
     THEN << << "state_base_kernel.lengthscale", "q_lengthscale_state" >>,
             << "action_base_kernel.lengthscale", "q_lengthscale_action" >>,
             << "state_base_kernel.raw_lengthscale",
                "q_raw_lengthscale_state" >>,
             << "action_base_kernel.raw_lengthscale",
                "q_raw_lengthscale_action" >> >>
     ELSE << << "covar_module.base_kernel.lengthscale", "q_lengthscale" >>,
             << "covar_module.base_kernel.raw_lengthscale",
                "q_raw_lengthscale" >> >>)
    \o << << "likelihood.noise_covar.noise", "q_covar_noise" >>,
          << "covar_module.outputscale", "q_outputscale" >>,
          << "likelihood.noise_covar.raw_noise", "q_raw_noise" >> >>
    \o (IF kern = "rq"
        THEN IF comp
             THEN << << "covar_module.state_base_kernel.alpha",
                        "q_alpha_state" >>,
                     << "covar_module.action_base_kernel.alpha",
                        "q_alpha_action" >> >>
             ELSE << << "covar_module.base_kernel.alpha", "q_alpha" >> >>
        ELSE << >>)
    \o (IF mean = "linear"
        THEN << << "mean_module.weights", "q_mean_weights" >>,
                << "mean_module.bias", "q_mean_bias" >> >>
        ELSE IF mean = "constant"
             THEN << << "mean_module.constant", "q_mean_constant" >> >>
             ELSE << >>)

\* The components of a sequence of pairs.
Firsts(entries) == { entries[i][1] : i \in DOMAIN entries }
Seconds(entries) == { entries[i][2] : i \in DOMAIN entries }

\* The parameter names of a model the fitter builds under a configuration:
\* the names the store is initialized from.
ExtractHyperparams(comp, kern, mean) == Seconds(InitEntries(comp, kern, mean))

\* init_hyperparam_storage(): torch.zeros tables of buffer_size rows.
InitHyperparamStorage(comp, kern, mean) ==
    [ a \in Firsts(InitEntries(comp, kern, mean)) |->
        [ s \in Slots |-> Zeros ] ]

\* The assignments of set_update_hyperparams that raise: the table was
\* never allocated (AttributeError) or the model has no such name (KeyError).
SaveBad(tables, model, comp, kern, mean) ==
    LET entries == SaveEntries(comp, kern, mean)
    IN  { i \in DOMAIN entries : \/ entries[i][1] \notin DOMAIN tables
                                 \/ entries[i][2] \notin DOMAIN model }

SaveRaises(tables, model, comp, kern, mean) ==
    SaveBad(tables, model, comp, kern, mean) # {}

\* set_update_hyperparams(model, idx): the tables after the assignments
\* that precede the first one that raises (all of them if none raises).
SetUpdateHyperparams(tables, model, idx, comp, kern, mean) ==
    LET entries == SaveEntries(comp, kern, mean)
        bad == SaveBad(tables, model, comp, kern, mean)
        done == { i \in DOMAIN entries : \A j \in bad : i < j }
    IN  [ a \in DOMAIN tables |->
            IF \E i \in done : entries[i][1] = a
            THEN LET i == CHOOSE j \in done :
                              /\ entries[j][1] = a
                              /\ \A m \in done :
                                     entries[m][1] = a => m <= j
                 IN  [ s \in Slots |->
                         IF s \in idx THEN model[entries[i][2]][s]
                                      ELSE tables[a][s] ]
            ELSE tables[a] ]

\* load_hyperparams(idx) raises: a table it reads was never allocated.
LoadRaises(tables, comp, kern, mean) ==
    \E a \in Seconds(LoadEntries(comp, kern, mean)) : a \notin DOMAIN tables

\* load_hyperparams(idx): name -> the rows idx of the name's table.
LoadHyperparams(tables, idx, comp, kern, mean) ==
    LET entries == LoadEntries(comp, kern, mean)
    IN  [ n \in Firsts(entries) |->
            LET i == CHOOSE j \in DOMAIN entries :
                         /\ entries[j][1] = n
                         /\ \A m \in DOMAIN entries :
                                entries[m][1] = n => m <= j
            IN  [ s \in idx |-> tables[entries[i][2]][s] ] ]

\* if new_point: model_hyperparams = None; else: load_hyperparams(...)
LoadsStored(new_point) == ~new_point

\* Mutant of Epochs: every fit runs one epoch.
EpochsOne(new_point) == "1"

\* epochs = GP_EPOCHS[self.env] if new_point else 1
Epochs(new_point) == IF new_point THEN "GP_EPOCHS" ELSE "1"

\* Mutant of NeedsStorage: the tables are allocated in every fitting round.
NeedsStorageAlways(storage_set) == TRUE

\* if not self.hyperparameter_storage_set: self.init_hyperparam_storage(model)
NeedsStorage(storage_set) == ~storage_set

\* gpr_train_batch(): the hyperparameters of the model it returns for the
\* slots idx.  With update_hyperparams they are fit to the transitions the
\* slots hold after n adds; without, they are the ones passed in.
GprTrainBatch(idx, names, model_hyperparams, update_hyperparams, n) ==
    [ nm \in names |->
        [ s \in idx |->
            IF update_hyperparams \/ nm \notin DOMAIN model_hyperparams
            THEN << nm, Occupant(s, n) >>
            ELSE model_hyperparams[nm][s] ] ]

\* The hyperparameters train_models_and_precompute passes to the fitter.
ModelHyperparams(training_idx, new_point) ==
    IF LoadsStored(new_point)
    THEN LoadHyperparams(q_hyper, training_idx, composite_kernel, kernel,
                         mean_type)
    ELSE EmptyTables

\* train_models_and_precompute raises before it has written anything it
\* keeps: load_hyperparams reads a table that was never allocated.
LoadFails(new_point) ==
    /\ LoadsStored(new_point)
    /\ LoadRaises(q_hyper, composite_kernel, kernel, mean_type)

\* train_models_and_precompute up to the neighbor draw: the model is fit,
\* the tables are allocated if they are not yet, the model's hyperparameters
\* are saved and the interpolation neighbors of the slots are drawn.
FitAndDrawNeighbors(training_idx, new_point, train) ==
    LET names == ExtractHyperparams(composite_kernel, kernel, mean_type)
        model == GprTrainBatch(training_idx, names,
                               ModelHyperparams(training_idx, new_point),
                               train, num_added)
        tables == IF NeedsStorage(hyperparameter_storage_set)
                  THEN InitHyperparamStorage(composite_kernel, kernel,
                                             mean_type)
                  ELSE q_hyper
    IN  /\ ~LoadFails(new_point)
        /\ q_hyper' = SetUpdateHyperparams(tables, model, training_idx,
                                           composite_kernel, kernel,
                                           mean_type)
        /\ hyperparameter_storage_set' = TRUE
        /\ storage_config' =
               IF NeedsStorage(hyperparameter_storage_set)
               THEN << composite_kernel, kernel, mean_type >>
               ELSE storage_config
        /\ queue_neighbor_idx' =
               [ s \in DOMAIN queue_neighbor_idx |->
                   IF s \in training_idx
                   THEN Occupant(s, num_added) ELSE queue_neighbor_idx[s] ]

\* One call of train_models_and_precompute that returns: after the
\* prediction the queue arrays of the slots of training_idx are overwritten
\* with samples precomputed for the transitions these slots hold now.
TrainModelsAndPrecompute(training_idx, new_point, train, trigger, explicit) ==
    /\ FitAndDrawNeighbors(training_idx, new_point, train)
    /\ queue_obs' = [ s \in DOMAIN queue_obs |->
                        IF s \in training_idx
                        THEN Occupant(s, num_added) ELSE queue_obs[s] ]
    /\ consumed' = [ s \in DOMAIN consumed |->
                       IF s \in training_idx THEN {} ELSE consumed[s] ]
    /\ UNCHANGED n_at_init
    /\ rounds' = Append(rounds, [ idx |-> training_idx,
                                  new_point |-> new_point,
                                  train |-> train,
                                  trigger |-> trigger,
                                  explicit |-> explicit,
                                  loaded |-> LoadsStored(new_point),
                                  epochs |-> Epochs(new_point),
                                  update |-> train,
                                  counter |-> counter ])

\* Initial values of the variables of replay().
ReplayInit ==
    /\ num_added = 0
    /\ total_sample_count = 0
    /\ newest_idx = 0
    /\ replace_mask = {}
    /\ check_update_neighbors = FALSE
    /\ initialized = FALSE
    /\ counter = << >>
    /\ queue_obs = << >>
    /\ consumed = << >>
    /\ n_at_init = 0
    /\ queue_neighbor_idx = << >>
    /\ pc = "idle"
    /\ sample_indices = << >>
    /\ train_idx = 0
    /\ neighbor_retrain_idx = << >>
    /\ all_idx = {}
    /\ rounds = << >>
    /\ counter_resolved = << >>
    /\ offsets = << >>
    /\ sample_idx = << >>
    /\ served = << >>
    /\ warned = FALSE
    /\ outcome = "pending"
    /\ replayed_at = 0

\* No save or load of SpecStore has happened.
NoOp == [ op |-> "none", idx |-> {}, ok |-> TRUE ]
StoreIdle ==
    /\ params = EmptyTables
    /\ loaded = EmptyTables
    /\ q_before = EmptyTables
    /\ last_op = NoOp

\* No neighbor draw, interpolation or weight normalization has happened.
NoDraw == [ idx |-> {}, replace |-> FALSE, ok |-> TRUE ]
SampleIdle ==
    /\ interp_indices = << >>
    /\ last_draw = NoDraw
    /\ queue_entry = << >>
    /\ unnormalized_weights = << >>
    /\ normalizing_factor = << >>
    /\ robust_weights = << >>

\* The queues of SpecQueue are not allocated.
QueueIdle ==
    /\ queue_B = << >>
    /\ queue_fill = << >>
    /\ filled_at = << >>
    /\ fills = 0
    /\ SampleIdle

\* The neighbor and target configuration the other specifications run under:
\* the scheduling, the store and the coefficients do not depend on it.
SamplingDefault ==
    /\ kneighbors = 2
    /\ furthest_neighbor = << >>
    /\ use_delta = FALSE

\* The state after construction.  The scheduling of replay() does not
\* depend on the kernel, the mean or the interpolation mode: it is explored
\* under one of them, and SpecStore and SpecQueue explore them all.
Init ==
    /\ queue_size \in 1 .. MaxQueueSize
    /\ queue_train_size \in 1 .. MaxQueueTrainSize
    /\ replay_starts \in 1 .. MaxReplayStarts
    /\ composite_kernel = FALSE
    /\ kernel = "rbf"
    /\ mean_type = "zero"
    /\ interp_mode = "mean"
    /\ SamplingDefault
    /\ hyperparameter_storage_set = FALSE
    /\ q_hyper = EmptyTables
    /\ storage_config = << >>
    /\ ReplayInit
    /\ StoreIdle
    /\ QueueIdle

\* Base buffer: a transition is added to the next slot of the circular
\* buffer; the slots whose neighbor set it enters are flagged.
Add ==
    /\ pc = "idle"
    /\ num_added < MaxAdded
    /\ LET idx == num_added % BufferSize
           total == Min(total_sample_count + 1, BufferSize)
       IN  /\ num_added' = num_added + 1
           /\ total_sample_count' = total
           /\ newest_idx' = idx
           /\ check_update_neighbors' = TRUE
           /\ \E entered \in SUBSET (Valid(total) \ {idx}) :
                  replace_mask' = replace_mask \cup entered
    /\ UNCHANGED << config, store_state, queue_state, initialized,
                    counter, fitted, pc, sample_indices, train_idx,
                    neighbor_retrain_idx, all_idx, rounds, history, outcome,
                    replayed_at >>

\* replay(): if self.num_added < self.replay_starts: return None
ReplayEarlyReturn ==
    /\ pc = "idle"
    /\ num_added < replay_starts
    /\ pc' = "return"
    /\ outcome' = "none"
    /\ UNCHANGED << config, store_state, queue_state, base,
                    replace_mask, check_update_neighbors, initialized,
                    counter, fitted, sample_indices, train_idx,
                    neighbor_retrain_idx, all_idx, rounds, history,
                    replayed_at >>

\* Mutant of InitializedFlag: run_init leaves the flag unset.
InitializedFlagUnset == FALSE

\* run_init(): self.initialized = True
InitializedFlag == TRUE

\* replay(): if not self.initialized: self.run_init() -- the allocations.
RunInit ==
    /\ pc = "idle"
    /\ num_added >= replay_starts
    /\ ~initialized
    /\ counter' = [ s \in Slots |-> Sentinel(queue_size) ]
    /\ queue_obs' = [ s \in Slots |-> 0 ]
    /\ consumed' = [ s \in Slots |-> {} ]
    /\ n_at_init' = total_sample_count
    /\ queue_neighbor_idx' = [ s \in Slots |-> 0 ]
    /\ initialized' = InitializedFlag
    /\ hyperparameter_storage_set' = FALSE
    /\ UNCHANGED << q_hyper, storage_config >>
    /\ train_idx' = 0
    /\ pc' = "run_init"
    /\ UNCHANGED << config, store_state, queue_state, base,
                    replace_mask, check_update_neighbors, sample_indices,
                    neighbor_retrain_idx, all_idx, rounds, history, outcome,
                    replayed_at >>

\* run_init(): one pass of the while loop over the existing slots.
RunInitRound ==
    /\ pc = "run_init"
    /\ train_idx < total_sample_count
    /\ LET idx_start == train_idx
           idx_end == ChunkEnd(idx_start, queue_train_size, total_sample_count)
           idx_to_train == idx_start .. (idx_end - 1)
       IN  /\ TrainModelsAndPrecompute(idx_to_train, TRUE, TRUE, "init",
                                       idx_to_train)
           /\ train_idx' = train_idx + (idx_end - idx_start)
    /\ UNCHANGED << config, store_state, queue_state, base,
                    replace_mask, check_update_neighbors, initialized,
                    counter, pc, sample_indices, neighbor_retrain_idx,
                    all_idx, history, outcome, replayed_at >>

\* replay(): self.sample_and_query(sample_points_only=True), entered from a
\* Ready buffer or when run_init's loop has ended.
SampleAndQuery ==
    /\ \/ /\ pc = "idle"
          /\ num_added >= replay_starts
          /\ initialized
       \/ /\ pc = "run_init"
          /\ train_idx >= total_sample_count
    /\ sample_indices' \in [ 1 .. ReplayBatchSize -> Valid(total_sample_count) ]
    /\ pc' = IF check_update_neighbors THEN "newest" ELSE "resolve"
    /\ UNCHANGED << config, store_state, queue_state, base,
                    replace_mask, check_update_neighbors, initialized,
                    counter, fitted, train_idx, neighbor_retrain_idx, all_idx,
                    rounds, history, outcome, replayed_at >>

\* replay(): the most recently added point is trained from scratch.
TrainNewest ==
    /\ pc = "newest"
    /\ TrainModelsAndPrecompute({newest_idx}, TRUE, TRUE, "newest",
                                {newest_idx})
    /\ IF replace_mask # {}
       THEN /\ neighbor_retrain_idx' = Ascending(replace_mask)
            /\ train_idx' = 0
            /\ pc' = "neighbor"
            /\ UNCHANGED check_update_neighbors
       ELSE /\ check_update_neighbors' = FALSE
            /\ pc' = "resolve"
            /\ UNCHANGED << neighbor_retrain_idx, train_idx >>
    /\ UNCHANGED << config, store_state, queue_state, base,
                    replace_mask, initialized, counter, sample_indices,
                    all_idx, history, outcome, replayed_at >>

\* The explicit chunk of the neighbor loop at cursor train_idx.
NeighborIdxBatch ==
    LET idx_start == train_idx
        idx_end == ChunkEnd(idx_start, queue_train_size,
                            Len(neighbor_retrain_idx))
    IN  { neighbor_retrain_idx[i] : i \in (idx_start + 1) .. idx_end }

\* replay(): one pass of the neighbor-invalidation while loop.
NeighborRound ==
    /\ pc = "neighbor"
    /\ train_idx < Len(neighbor_retrain_idx)
    /\ LET neighbor_idx_batch == NeighborIdxBatch
           k == Remaining(queue_train_size, Cardinality(neighbor_idx_batch))
       IN  /\ ~(k > 0 /\ ArgpartitionRaises(total_sample_count, k))
           /\ \E least_samples_idx \in
                    IF k > 0 THEN KLargest(counter, total_sample_count, k)
                             ELSE { {} } :
                  /\ all_idx' = neighbor_idx_batch \cup least_samples_idx
                  /\ TrainModelsAndPrecompute(all_idx', FALSE, TRUE,
                                              "neighbor", neighbor_idx_batch)
           /\ train_idx' = train_idx + Cardinality(neighbor_idx_batch)
    /\ UNCHANGED << config, store_state, queue_state, base,
                    replace_mask, check_update_neighbors, initialized,
                    counter, pc, sample_indices, neighbor_retrain_idx,
                    history, outcome, replayed_at >>

\* replay(): np.argpartition raises inside the neighbor loop.
NeighborRoundRaises ==
    /\ pc = "neighbor"
    /\ train_idx < Len(neighbor_retrain_idx)
    /\ LET k == Remaining(queue_train_size, Cardinality(NeighborIdxBatch))
       IN  k > 0 /\ ArgpartitionRaises(total_sample_count, k)
    /\ pc' = "return"
    /\ outcome' = "raised"
    /\ UNCHANGED << config, store_state, queue_state, base,
                    replace_mask, check_update_neighbors, initialized,
                    counter, fitted, sample_indices, train_idx,
                    neighbor_retrain_idx, all_idx, rounds, history,
                    replayed_at >>

\* replay(): the neighbor loop has ended: mask and counters are reset.
NeighborDone ==
    /\ pc = "neighbor"
    /\ train_idx >= Len(neighbor_retrain_idx)
    /\ replace_mask' = ClearedMask(replace_mask)
    /\ counter' = ResetCounters(counter, all_idx)
    /\ check_update_neighbors' = FALSE
    /\ pc' = "resolve"
    /\ UNCHANGED << config, store_state, queue_state, base, initialized,
                    fitted, sample_indices, train_idx, neighbor_retrain_idx,
                    all_idx, rounds, history, outcome, replayed_at >>

\* The explicitly exhausted slots: np.unique(sample_indices[out_of_samples])
ExhaustedIdx ==
    { sample_indices[i] :
        i \in OutOfSamples(counter, sample_indices, queue_size) }

\* Mutant of RefillTrains: the exhaustion refill optimizes the
\* hyperparameters like a neighbor round.
RefillTrainsOn == TRUE

\* replay(): train_models_and_precompute(idx_train, batch_size=idx_train.size,
\* new_point=False, train=False)
RefillTrains == FALSE

\* Mutant of AfterResolve: the counters advance without the queues being read.
AfterResolveSkipsRead == "advance"

\* replay(): past the exhaustion block the final offsets are resolved and the
\* queues read.
AfterResolve == "read"

\* replay(): offsets are computed; exhausted slots are refilled.
Refill ==
    /\ pc = "resolve"
    /\ IF ExhaustedIdx # {}
       THEN LET k == Remaining(queue_train_size, Cardinality(ExhaustedIdx))
            IN  /\ ~(k > 0 /\ ArgpartitionRaises(total_sample_count, k))
                /\ \E other_idx \in
                        IF k > 0 THEN KLargest(counter, total_sample_count, k)
                                 ELSE { {} } :
                      LET idx_train == ExhaustedIdx \cup other_idx
                      IN  /\ TrainModelsAndPrecompute(idx_train, FALSE,
                                                      RefillTrains,
                                                      "exhaustion",
                                                      ExhaustedIdx)
                          /\ counter' = ResetCounters(counter, idx_train)
       ELSE UNCHANGED << counter, fitted, rounds >>
    /\ pc' = AfterResolve
    /\ UNCHANGED << config, store_state, queue_state, base,
                    replace_mask, check_update_neighbors, initialized,
                    sample_indices, train_idx, neighbor_retrain_idx, all_idx,
                    history, outcome, replayed_at >>

\* replay(): np.argpartition raises in the exhaustion refill.
RefillRaises ==
    /\ pc = "resolve"
    /\ ExhaustedIdx # {}
    /\ LET k == Remaining(queue_train_size, Cardinality(ExhaustedIdx))
       IN  k > 0 /\ ArgpartitionRaises(total_sample_count, k)
    /\ pc' = "return"
    /\ outcome' = "raised"
    /\ UNCHANGED << config, store_state, queue_state, base,
                    replace_mask, check_update_neighbors, initialized,
                    counter, fitted, sample_indices, train_idx,
                    neighbor_retrain_idx, all_idx, rounds, history,
                    replayed_at >>

\* The fill slots of a chunk with the explicit slots e: none when the chunk
\* is full, and no choice when np.argpartition raises.
FillChoices(e) ==
    LET k == Remaining(queue_train_size, Cardinality(e))
    IN  IF k = 0 THEN { {} }
        ELSE IF ArgpartitionRaises(total_sample_count, k) THEN {}
        ELSE KLargest(counter, total_sample_count, k)

\* The calls of train_models_and_precompute replay() can make next.
PendingRound ==
    IF pc = "run_init" /\ train_idx < total_sample_count
    THEN LET idx_end == ChunkEnd(train_idx, queue_train_size,
                                 total_sample_count)
         IN  { [ idx |-> train_idx .. (idx_end - 1),
                 new_point |-> TRUE, train |-> TRUE ] }
    ELSE IF pc = "newest"
    THEN { [ idx |-> {newest_idx}, new_point |-> TRUE, train |-> TRUE ] }
    ELSE IF pc = "neighbor" /\ train_idx < Len(neighbor_retrain_idx)
    THEN { [ idx |-> NeighborIdxBatch \cup F,
             new_point |-> FALSE, train |-> TRUE ] :
           F \in FillChoices(NeighborIdxBatch) }
    ELSE IF pc = "resolve" /\ ExhaustedIdx # {}
    THEN { [ idx |-> ExhaustedIdx \cup F,
             new_point |-> FALSE, train |-> RefillTrains ] :
           F \in FillChoices(ExhaustedIdx) }
    ELSE {}

\* train_models_and_precompute raises before the model exists (the load of
\* the stored hyperparameters or gpr_train_batch): nothing was written.
FitRaises ==
    /\ PendingRound # {}
    /\ pc' = "return"
    /\ outcome' = "fit_raised"
    /\ UNCHANGED << config, store_state, queue_state, base,
                    replace_mask, check_update_neighbors, initialized,
                    counter, fitted, sample_indices, train_idx,
                    neighbor_retrain_idx, all_idx, rounds, history,
                    replayed_at >>

\* train_models_and_precompute raises in the prediction
\* likelihood(model(X_q_tensor)): the hyperparameters were saved and the
\* neighbors drawn, the other queue arrays were not written.
PredictRaises ==
    /\ \E r \in PendingRound :
           FitAndDrawNeighbors(r.idx, r.new_point, r.train)
    /\ pc' = "return"
    /\ outcome' = "fit_raised"
    /\ UNCHANGED << config, store_state, queue_state, base,
                    replace_mask, check_update_neighbors, initialized,
                    counter, queue_obs, consumed, n_at_init, sample_indices,
                    train_idx,
                    neighbor_retrain_idx, all_idx, rounds, history,
                    replayed_at >>

\* replay(): the final offsets are resolved, wrapped, and the queues read.
Read ==
    /\ pc = "read"
    /\ counter_resolved' = counter
    /\ offsets' = CounterIdx(counter, sample_indices)
    /\ sample_idx' = [ i \in DOMAIN sample_indices |->
                         Wrap(offsets'[i], queue_size) ]
    /\ warned' = (\E i \in DOMAIN sample_indices : offsets'[i] >= queue_size)
    /\ served' = [ i \in DOMAIN sample_indices |->
                     queue_obs[sample_indices[i]] ]
    /\ pc' = "advance"
    /\ UNCHANGED << config, store_state, queue_state, base,
                    replace_mask, check_update_neighbors, initialized,
                    counter, fitted, sample_indices, train_idx,
                    neighbor_retrain_idx, all_idx, rounds, outcome,
                    replayed_at >>

\* replay(): counters of the sampled slots advance; the batch is returned.
Advance ==
    /\ pc = "advance"
    /\ counter' = AdvanceCounters(counter, sample_indices)
    /\ consumed' = [ s \in DOMAIN consumed |->
                       consumed[s] \cup
                           { sample_idx[i] : i \in { j \in DOMAIN sample_indices :
                                                      sample_indices[j] = s } } ]
    /\ pc' = "return"
    /\ outcome' = "batch"
    /\ UNCHANGED << config, store_state, queue_state, base,
                    replace_mask, check_update_neighbors, initialized,
                    queue_obs, queue_neighbor_idx, hyperparameter_storage_set,
                    q_hyper, storage_config, n_at_init,
                    sample_indices, train_idx, neighbor_retrain_idx, all_idx,
                    rounds, history, replayed_at >>

\* replay() has returned (or raised): its locals are gone.
Return ==
    /\ pc = "return"
    /\ pc' = "idle"
    /\ outcome' = "pending"
    /\ sample_indices' = << >>
    /\ train_idx' = 0
    /\ neighbor_retrain_idx' = << >>
    /\ all_idx' = {}
    /\ rounds' = << >>
    /\ counter_resolved' = << >>
    /\ offsets' = << >>
    /\ sample_idx' = << >>
    /\ served' = << >>
    /\ warned' = FALSE
    /\ replayed_at' = IF outcome = "none" THEN replayed_at ELSE num_added
    /\ UNCHANGED << config, store_state, queue_state, base,
                    replace_mask, check_update_neighbors, initialized,
                    counter, fitted >>

Next ==
    \/ Add
    \/ ReplayEarlyReturn
    \/ RunInit
    \/ RunInitRound
    \/ SampleAndQuery
    \/ TrainNewest
    \/ NeighborRound
    \/ NeighborRoundRaises
    \/ NeighborDone
    \/ Refill
    \/ RefillRaises
    \/ FitRaises
    \/ PredictRaises
    \/ Read
    \/ Advance
    \/ Return

Spec == Init /\ [][Next]_vars

\* ------------------------------------------------- one call of replay()
\* The first call of replay() after any number of adds, up to its return:
\* it runs run_init's loop over the existing slots and the neighbor loop over
\* the flagged slots.  The loops do not depend on queue_size or
\* replay_starts.
InitOneStep == Init /\ queue_size = 1 /\ replay_starts = 1

NextOneStep ==
    \/ Add
    \/ ReplayEarlyReturn
    \/ RunInit
    \/ RunInitRound
    \/ SampleAndQuery
    \/ TrainNewest
    \/ NeighborRound
    \/ NeighborRoundRaises
    \/ NeighborDone
    \/ Refill
    \/ RefillRaises
    \/ FitRaises
    \/ PredictRaises
    \/ Read
    \/ Advance

\* replay() is sequential code: inside a while loop the next statement is
\* executed.  Nothing obliges the caller to add or to replay.
LoopStep == pc \in { "run_init", "neighbor" } /\ NextOneStep
SpecLoops == InitOneStep /\ [][NextOneStep]_vars /\ WF_vars(LoopStep)

\* ------------------------------------------- the store and the queues alone
MaxParamValue == 2
MaxFills == 2
HalfScale == 1

\* run_init has allocated the counters and the queue arrays of a full
\* buffer and no fitting round has completed.
Allocated ==
    /\ num_added = BufferSize
    /\ total_sample_count = BufferSize
    /\ newest_idx = BufferSize - 1
    /\ replace_mask = {}
    /\ check_update_neighbors = TRUE
    /\ initialized = InitializedFlag
    /\ counter = [ s \in Slots |-> Sentinel(queue_size) ]
    /\ queue_obs = [ s \in Slots |-> 0 ]
    /\ consumed = [ s \in Slots |-> {} ]
    /\ n_at_init = BufferSize
    /\ queue_neighbor_idx = [ s \in Slots |-> 0 ]
    /\ pc = "run_init"
    /\ sample_indices = << >>
    /\ train_idx = 0
    /\ neighbor_retrain_idx = << >>
    /\ all_idx = {}
    /\ rounds = << >>
    /\ counter_resolved = << >>
    /\ offsets = << >>
    /\ sample_idx = << >>
    /\ served = << >>
    /\ warned = FALSE
    /\ outcome = "pending"
    /\ replayed_at = 0

\* The hyperparameter store right after init_hyperparam_storage, under
\* every kernel and mean configuration.
InitStore ==
    /\ queue_size = 1
    /\ queue_train_size = BufferSize
    /\ replay_starts = 1
    /\ composite_kernel \in BOOLEAN
    /\ kernel \in Kernels
    /\ mean_type \in MeanTypes
    /\ interp_mode = "mean"
    /\ SamplingDefault
    /\ hyperparameter_storage_set = TRUE
    /\ q_hyper = InitHyperparamStorage(composite_kernel, kernel, mean_type)
    /\ storage_config = << composite_kernel, kernel, mean_type >>
    /\ Allocated
    /\ StoreIdle
    /\ QueueIdle

\* set_update_hyperparams(model, idx) for a model fit under the present
\* configuration.
StoreSave ==
    /\ \E idx \in SUBSET Slots \ { {} } :
       \E v \in [ idx -> 1 .. MaxParamValue ] :
           LET model ==
                   [ nm \in ExtractHyperparams(composite_kernel, kernel,
                                               mean_type) |->
                       [ s \in idx |-> << nm, v[s] >> ] ]
           IN  /\ params' = model
               /\ q_before' = q_hyper
               /\ q_hyper' = SetUpdateHyperparams(q_hyper, model, idx,
                                                  composite_kernel, kernel,
                                                  mean_type)
               /\ last_op' = [ op |-> "save", idx |-> idx,
                               ok |-> ~SaveRaises(q_hyper, model,
                                                  composite_kernel, kernel,
                                                  mean_type) ]
    /\ loaded' = EmptyTables
    /\ UNCHANGED << config, base, history, queue_state, replay_state,
                    queue_obs, queue_neighbor_idx, consumed, n_at_init,
                    hyperparameter_storage_set, storage_config >>

\* load_hyperparams(idx) under the present configuration.
StoreLoad ==
    /\ \E idx \in SUBSET Slots \ { {} } :
           /\ loaded' = IF LoadRaises(q_hyper, composite_kernel, kernel,
                                      mean_type)
                        THEN EmptyTables
                        ELSE LoadHyperparams(q_hyper, idx, composite_kernel,
                                             kernel, mean_type)
           /\ last_op' = [ op |-> "load", idx |-> idx,
                           ok |-> ~LoadRaises(q_hyper, composite_kernel,
                                              kernel, mean_type) ]
    /\ q_before' = EmptyTables
    /\ UNCHANGED << config, base, history, queue_state, replay_state,
                    fitted, params >>

\* The caller assigns composite_kernel, kernel or mean_type after the
\* tables were allocated.
Reconfigure ==
    /\ storage_config = << composite_kernel, kernel, mean_type >>
    /\ \E c \in BOOLEAN, k \in Kernels, m \in MeanTypes :
           /\ << c, k, m >> # storage_config
           /\ composite_kernel' = c
           /\ kernel' = k
           /\ mean_type' = m
    /\ last_op' = [ op |-> "config", idx |-> {}, ok |-> TRUE ]
    /\ loaded' = EmptyTables
    /\ q_before' = EmptyTables
    /\ UNCHANGED << queue_size, queue_train_size, replay_starts, interp_mode,
                    kneighbors, furthest_neighbor, use_delta,
                    base, history, queue_state, replay_state, fitted,
                    params >>

NextStore ==
    \/ StoreSave
    \/ StoreLoad
    \/ Reconfigure

SpecStore == InitStore /\ [][NextStore]_vars

\* The interpolation modes: use_smote, use_mixup, or the arithmetic mean.
InterpModes == { "smote", "mixup", "mean" }

\* Mutant of BValues: the SMOTE coefficient is drawn as 2 * random().
BValuesDoubled(mode) ==
    IF mode = "smote" THEN 0 .. (4 * HalfScale - 1)
    ELSE IF mode = "mixup" THEN 0 .. (2 * HalfScale)
    ELSE { HalfScale }

\* The coefficient b in units of 1 / (2 * HalfScale): np.random.random draws
\* from [0, 1), np.random.beta from [0, 1], the arithmetic mean is 0.5.
BValues(mode) ==
    IF mode = "smote" THEN 0 .. (2 * HalfScale - 1)
    ELSE IF mode = "mixup" THEN 0 .. (2 * HalfScale)
    ELSE { HalfScale }

\* The queue arrays right after run_init's np.zeros allocations, under
\* every interpolation mode.
InitQueue ==
    /\ queue_size \in 1 .. MaxQueueSize
    /\ queue_train_size = BufferSize
    /\ replay_starts = 1
    /\ composite_kernel = FALSE
    /\ kernel = "rbf"
    /\ mean_type = "zero"
    /\ interp_mode \in InterpModes
    /\ SamplingDefault
    /\ hyperparameter_storage_set = FALSE
    /\ q_hyper = EmptyTables
    /\ storage_config = << >>
    /\ Allocated
    /\ StoreIdle
    /\ queue_B = [ s \in Slots |-> [ i \in 1 .. queue_size |-> 0 ] ]
    /\ queue_fill = [ s \in Slots |-> [ i \in 1 .. queue_size |-> 0 ] ]
    /\ filled_at = [ s \in Slots |-> 0 ]
    /\ fills = 0
    /\ SampleIdle

\* train_models_and_precompute: queue_size neighbors and coefficients are
\* drawn for every slot of training_idx and self.queue_B[training_idx, ...]
\* = b overwrites the rows of these slots.
PrecomputeQueues ==
    /\ fills < MaxFills
    /\ \E training_idx \in SUBSET Slots \ { {} } :
       \E b \in [ training_idx ->
                    [ 1 .. queue_size -> BValues(interp_mode) ] ] :
           /\ queue_B' = [ s \in Slots |->
                             IF s \in training_idx THEN b[s]
                                                   ELSE queue_B[s] ]
           /\ queue_fill' = [ s \in Slots |->
                                IF s \in training_idx
                                THEN [ i \in 1 .. queue_size |->
                                         filled_at[s] + 1 ]
                                ELSE queue_fill[s] ]
           /\ filled_at' = [ s \in Slots |->
                               IF s \in training_idx
                               THEN filled_at[s] + 1 ELSE filled_at[s] ]
    /\ fills' = fills + 1
    /\ UNCHANGED << config, base, history, fitted, store_state,
                    replay_state, sample_state >>

NextQueue == PrecomputeQueues

SpecQueue == InitQueue /\ [][NextQueue]_vars

\* ------------------------------------------------- the neighbor draw alone
MaxNeighbors == 4

\* Mutant of Replace: replacement is dropped as soon as the nominal pool
\* holds queue_size neighbors (>= for >).
ReplaceUnlessAtLeast(kn, fn, qs) ==
    ~((IF fn # << >> THEN fn[1] ELSE kn) - 1 >= qs)

\* replace = not (self.furthest_neighbor - 1 > self.queue_size), with
\* kneighbors for furthest_neighbor when that is None.
Replace(kn, fn, qs) ==
    ~((IF fn # << >> THEN fn[1] ELSE kn) - 1 > qs)

\* k[1:self.furthest_neighbor]: the positions of a neighbor list k of kn
\* entries that the slice keeps (position 0 is the nearest neighbor).
Pool(kn, fn) ==
    1 .. ((IF fn # << >> THEN Min(fn[1], kn) ELSE kn) - 1)

\* np.random.choice(pool, size, replace) raises ValueError: the pool is
\* empty, or it is smaller than size and replace is False.
ChoiceRaises(pool, size, replace) ==
    \/ pool = {}
    \/ (~replace /\ size > Cardinality(pool))

\* np.random.choice(pool, size, replace): the rows it can return.
Choice(pool, size, replace) ==
    { r \in [ 1 .. size -> pool ] :
        replace \/ \A i, j \in 1 .. size : r[i] = r[j] => i = j }

\* The chunks of at most queue_train_size slots.
Chunks == { S \in SUBSET Slots : S # {} /\ Cardinality(S) <= queue_train_size }

\* The buffer after run_init's allocations, under every neighbor
\* configuration, fitting one slot per round.
InitDraw ==
    /\ queue_size \in 1 .. MaxQueueSize
    /\ queue_train_size = 1
    /\ replay_starts = 1
    /\ composite_kernel = FALSE
    /\ kernel = "rbf"
    /\ mean_type = "zero"
    /\ interp_mode = "mean"
    /\ kneighbors \in 1 .. MaxNeighbors
    /\ furthest_neighbor \in
           { << >> } \cup { << n >> : n \in 1 .. (MaxNeighbors + 1) }
    /\ use_delta = FALSE
    /\ hyperparameter_storage_set = FALSE
    /\ q_hyper = EmptyTables
    /\ storage_config = << >>
    /\ Allocated
    /\ StoreIdle
    /\ QueueIdle

\* train_models_and_precompute: queue_size neighbors are drawn for every
\* slot of training_idx and stored in queue_neighbor_idx[training_idx].
DrawNeighbors ==
    /\ fills < MaxFills
    /\ \E training_idx \in Chunks :
           LET replace == Replace(kneighbors, furthest_neighbor, queue_size)
               pool == Pool(kneighbors, furthest_neighbor)
           IN  /\ ~ChoiceRaises(pool, queue_size, replace)
               /\ interp_indices' \in
                      [ training_idx -> Choice(pool, queue_size, replace) ]
               /\ last_draw' = [ idx |-> training_idx, replace |-> replace,
                                 ok |-> TRUE ]
    /\ fills' = fills + 1
    /\ UNCHANGED << config, base, history, fitted, store_state, replay_state,
                    queue_B, queue_fill, filled_at, queue_entry,
                    unnormalized_weights, normalizing_factor,
                    robust_weights >>

\* train_models_and_precompute: np.random.choice raises, nothing is stored.
DrawRaises ==
    /\ fills < MaxFills
    /\ \E training_idx \in Chunks :
           LET replace == Replace(kneighbors, furthest_neighbor, queue_size)
               pool == Pool(kneighbors, furthest_neighbor)
           IN  /\ ChoiceRaises(pool, queue_size, replace)
               /\ last_draw' = [ idx |-> training_idx, replace |-> replace,
                                 ok |-> FALSE ]
    /\ interp_indices' = << >>
    /\ fills' = fills + 1
    /\ UNCHANGED << config, base, history, fitted, store_state, replay_state,
                    queue_B, queue_fill, filled_at,
                    queue_entry, unnormalized_weights, normalizing_factor,
                    robust_weights >>

NextDraw ==
    \/ DrawNeighbors
    \/ DrawRaises

SpecDraw == InitDraw /\ [][NextDraw]_vars

\* ------------------------------------------ one precomputed sample alone
MaxObs == 2

\* X_q in units of 1 / (2 * HalfScale): B * X_s + (1 - B) * X_n under SMOTE
\* or Mixup, (X_s + X_n) / 2 otherwise.
Interpolate(mode, b, x_s, x_n) ==
    IF mode \in { "smote", "mixup" }
    THEN b * x_s + (2 * HalfScale - b) * x_n
    ELSE HalfScale * (x_s + x_n)

\* Mutant of NewObs: the prediction is stored as it is, delta or not.
NewObsNoDelta(delta, interpolated_obs, new_or_delta_obs) ==
    2 * HalfScale * new_or_delta_obs

\* queue_new_obs[training_idx, ...] = interpolated_obs +
\* interpolated_new_or_delta_obs if self.use_delta, else the prediction; in
\* units of 1 / (2 * HalfScale).
NewObs(delta, interpolated_obs, new_or_delta_obs) ==
    IF delta THEN interpolated_obs + 2 * HalfScale * new_or_delta_obs
             ELSE 2 * HalfScale * new_or_delta_obs

\* The buffer after run_init's allocations, under every interpolation mode,
\* with and without delta targets.
InitInterp ==
    /\ queue_size = 1
    /\ queue_train_size = 1
    /\ replay_starts = 1
    /\ composite_kernel = FALSE
    /\ kernel = "rbf"
    /\ mean_type = "zero"
    /\ interp_mode \in InterpModes
    /\ kneighbors = 2
    /\ furthest_neighbor = << >>
    /\ use_delta \in BOOLEAN
    /\ hyperparameter_storage_set = FALSE
    /\ q_hyper = EmptyTables
    /\ storage_config = << >>
    /\ Allocated
    /\ StoreIdle
    /\ QueueIdle

\* train_models_and_precompute for one slot and one queue entry: the slot's
\* observation X_s and a neighbor's X_n are interpolated with coefficient b,
\* the model predicts at the interpolated point, and the interpolated
\* observation and the next observation are stored in the queue.
PrecomputeSample ==
    /\ fills < MaxFills
    /\ \E x_s \in 0 .. MaxObs, x_n \in 0 .. MaxObs,
          b \in BValues(interp_mode), out_y \in 0 .. MaxObs :
           LET interpolated_obs == Interpolate(interp_mode, b, x_s, x_n)
           IN  queue_entry' =
                   [ anchor |-> x_s, neighbor |-> x_n, b |-> b,
                     pred |-> out_y,
                     obs |-> interpolated_obs,
                     new_obs |-> NewObs(use_delta, interpolated_obs, out_y) ]
    /\ fills' = fills + 1
    /\ UNCHANGED << config, base, history, fitted, store_state, replay_state,
                    queue_B, queue_fill, filled_at, interp_indices, last_draw,
                    unnormalized_weights, normalizing_factor,
                    robust_weights >>

NextInterp == PrecomputeSample

SpecInterp == InitInterp /\ [][NextInterp]_vars

\* --------------------------------------------- the likelihood weights alone
\* torch.sigmoid of a non-negative number, in units of 1 / (2 * HalfScale):
\* the stored weights lie between 1/2 and 1.
Weights == HalfScale .. (2 * HalfScale)

\* np.sum(unnormalized_weights)
RECURSIVE SumWeights(_)
SumWeights(w) ==
    IF w = << >> THEN 0 ELSE w[1] + SumWeights(Tail(w))

\* Mutant of NormalizingFactor: the weights are normalized to sum 1.
NormalizingFactorUnit(n, w) == << 1, SumWeights(w) >>

\* normalizing_factor = self.replay_batch_size / np.sum(unnormalized_weights)
\* as the fraction << numerator, denominator >>.
NormalizingFactor(n, w) == << n, SumWeights(w) >>

\* robust_weights = unnormalized_weights * normalizing_factor: the numerators
\* over the factor's denominator (the unit of the weights cancels).
RobustWeights(w, f) == [ i \in DOMAIN w |-> w[i] * f[1] ]

\* The buffer after run_init's allocations, importance weighting enabled.
InitWeights ==
    /\ queue_size \in 1 .. MaxQueueSize
    /\ queue_train_size = 1
    /\ replay_starts = 1
    /\ composite_kernel = FALSE
    /\ kernel = "rbf"
    /\ mean_type = "zero"
    /\ interp_mode = "mean"
    /\ SamplingDefault
    /\ hyperparameter_storage_set = FALSE
    /\ q_hyper = EmptyTables
    /\ storage_config = << >>
    /\ Allocated
    /\ StoreIdle
    /\ QueueIdle

\* replay(): the stored weights of the entries read for the sample batch are
\* sliced out of queue_likelihood_weights and normalized (one call).
NormalizeWeights ==
    /\ robust_weights = << >>
    /\ \E si \in [ 1 .. ReplayBatchSize -> Slots ],
          w \in [ 1 .. ReplayBatchSize -> Weights ] :
           /\ sample_indices' = si
           /\ unnormalized_weights' = w
           /\ normalizing_factor' = NormalizingFactor(ReplayBatchSize, w)
           /\ robust_weights' = RobustWeights(w, normalizing_factor')
    /\ UNCHANGED << config, base, history, fitted, store_state,
                    replace_mask, check_update_neighbors, initialized, counter,
                    pc, train_idx, neighbor_retrain_idx, all_idx, rounds,
                    outcome, replayed_at,
                    queue_B, queue_fill, filled_at, fills, interp_indices,
                    last_draw, queue_entry >>

NextWeights == NormalizeWeights

SpecWeights == InitWeights /\ [][NextWeights]_vars

TypeOK ==
    /\ pc \in { "idle", "run_init", "newest", "neighbor", "resolve", "read",
                "advance", "return" }
    /\ outcome \in { "pending", "none", "batch", "raised", "fit_raised" }
    /\ replace_mask \subseteq Valid(total_sample_count)
    /\ total_sample_count = Min(num_added, BufferSize)
\* ------------------------------------------------------------ properties

\* The i-th and j-th request are for the same slot.
SameSlot(i, j) == sample_indices[i] = sample_indices[j]

\* Position i is the first request for its slot in the batch.
FirstRequest(i) ==
    \A j \in DOMAIN sample_indices : j < i => ~SameSlot(i, j)

\* Position j is the next request after i for the same slot.
NextRequest(i, j) ==
    /\ i < j
    /\ SameSlot(i, j)
    /\ \A m \in DOMAIN sample_indices : (i < m /\ m < j) => ~SameSlot(i, m)

\* The slots fit by some round of the current call.
Retrained == UNION { rounds[r].idx : r \in DOMAIN rounds }

\* The slots fit by a round of the current call with the given trigger.
RetrainedBy(trigger) ==
    UNION { rounds[r].idx : r \in { q \in DOMAIN rounds :
                                      rounds[q].trigger = trigger } }

\* C1: within one request the offsets resolved for a slot start at the
\* slot's counter at resolution time and advance by one per repeat, in
\* request order; two repeats read the same queue entry only after a wrap.
C1_RepeatOffsetsAdvance ==
    pc = "advance" =>
        \A i \in DOMAIN sample_indices :
            /\ FirstRequest(i) =>
                   offsets[i] = counter_resolved[sample_indices[i]]
            /\ \A j \in DOMAIN sample_indices :
                   /\ NextRequest(i, j) => offsets[j] = offsets[i] + 1
                   /\ (i < j /\ SameSlot(i, j)) =>
                          /\ offsets[i] < offsets[j]
                          /\ sample_idx[i] = sample_idx[j] =>
                                 offsets[j] >= queue_size

\* C1 witness: a slot is requested twice in one batch and nothing wraps.
C1_Witness ==
    /\ pc = "advance"
    /\ ~warned
    /\ \E i, j \in DOMAIN sample_indices : i < j /\ SameSlot(i, j)

\* C2 (as claimed): when the offsets are resolved, every slot retrained in
\* this call has consumption counter 0.
C2_RetrainedCounterZero ==
    pc = "read" => \A s \in Retrained : counter[s] = 0

\* C3 (as claimed): after every replay step that completes, early returns
\* included, the neighbor-change mask is all-false.
C3_MaskClearAfterEveryStep ==
    (pc = "return" /\ outcome \in { "none", "batch" }) => replace_mask = {}

\* C3 (amended): after every replay step that returns a batch, and from the
\* end of the neighbor pass on, the neighbor-change mask is all-false.
C3_MaskClearAfterBatch ==
    (\/ pc \in { "resolve", "read", "advance" }
     \/ (pc = "return" /\ outcome = "batch")) => replace_mask = {}

\* C3 witness: a step with neighbor-invalidation rounds returned a batch.
C3_Witness ==
    /\ pc = "return"
    /\ outcome = "batch"
    /\ \E r \in DOMAIN rounds : rounds[r].trigger = "neighbor"

\* C4 (as claimed): every fitting round holds at most queue_train_size slots.
C4_RoundWithinTrainSize ==
    \A r \in DOMAIN rounds : Cardinality(rounds[r].idx) <= queue_train_size

\* C5 (as claimed): every queue entry read by a replay step was precomputed
\* for the transition its slot holds now.
C5_NoStaleEntryServed ==
    pc = "advance" =>
        \A i \in DOMAIN sample_indices :
            served[i] = Occupant(sample_indices[i], num_added)

\* C6 (as claimed): every consumption counter lies in 0 .. queue_size + 1.
C6_CounterWithinSentinel ==
    \A s \in DOMAIN counter : counter[s] \in 0 .. (queue_size + 1)

\* C7: every queue entry a replay step reads belongs to a slot that has been
\* through a fitting round, and no sampled slot still carries the sentinel
\* when its offsets are resolved.
C7_FitBeforeFirstRead ==
    pc = "advance" =>
        \A i \in DOMAIN sample_indices :
            /\ served[i] # 0
            /\ counter_resolved[sample_indices[i]] < queue_size

\* C7 witness: a Ready buffer serves a slot that was refilled in this step
\* by the exhaustion trigger alone.
C7_Witness ==
    /\ pc = "advance"
    /\ \A r \in DOMAIN rounds : rounds[r].trigger # "init"
    /\ \E i \in DOMAIN sample_indices :
           /\ sample_indices[i] \in RetrainedBy("exhaustion")
           /\ sample_indices[i] \notin RetrainedBy("newest")
           /\ sample_indices[i] \notin RetrainedBy("neighbor")

C9_OverRequestWraps ==
    (/\ pc = "return"
     /\ outcome # "fit_raised"
     /\ \E s \in Slots : Bincount(sample_indices, s) > queue_size) =>
        /\ outcome = "batch"
        /\ warned
        /\ \A i \in DOMAIN sample_indices :
               Bincount(sample_indices, sample_indices[i]) > queue_size =>
                   sample_idx[i] = RepeatTracker(sample_indices)[i] % queue_size

\* ceil(n / q)
CeilDiv(n, q) == (n + q - 1) \div q

\* run_init's loop has ended.
RunInitEnded == pc = "run_init" /\ train_idx >= total_sample_count

\* C10: when run_init's loop ends it has run ceil(n / queue_train_size)
\* cold-fit rounds, round j over the contiguous slots (j-1)*q .. min(j*q,n)-1,
\* every existing slot in exactly one round, the buffer is initialized and
\* every existing slot's queue is populated for the transition it holds.
C10_InitRounds ==
    RunInitEnded =>
        LET n == total_sample_count
            q == queue_train_size
        IN  /\ Len(rounds) = CeilDiv(n, q)
            /\ \A j \in DOMAIN rounds :
                   /\ rounds[j].idx = { s \in Valid(n) :
                                          (j - 1) * q <= s /\ s < j * q }
                   /\ rounds[j].idx # {}
                   /\ Cardinality(rounds[j].idx) <= q
                   /\ rounds[j].new_point
                   /\ rounds[j].train
            /\ \A s \in Valid(n) :
                   /\ Cardinality({ j \in DOMAIN rounds :
                                      s \in rounds[j].idx }) = 1
                   /\ queue_obs[s] = Occupant(s, num_added)
                   /\ queue_obs[s] # 0
            /\ initialized

\* C10 witness: the bulk initialization took more than one round.
C10_Witness == RunInitEnded /\ Len(rounds) >= 2

\* The round was made by the neighbor-invalidation loop.
IsNeighborRound(r) == r.trigger = "neighbor"

\* The rounds of the neighbor-invalidation pass of this call, in order.
NeighborRounds == SelectSeq(rounds, IsNeighborRound)

\* The while loop of the neighbor-invalidation pass has ended.
NeighborLoopEnded ==
    pc = "neighbor" /\ train_idx >= Len(neighbor_retrain_idx)

\* The position of slot s among the members of S in ascending order.
Rank(s, S) == Cardinality({ u \in S : u <= s })

\* C11 (as claimed): a neighbor-invalidation pass over m flagged slots runs
\* ceil(m / queue_train_size) rounds, the explicit chunk of round j holds
\* the flagged slots of ascending rank (j-1)*q+1 .. min(j*q, m), so every
\* flagged slot is in exactly one explicit chunk, and unless the fitter
\* fails the step ends with all these rounds run and the mask all-false.
C11_NeighborPassRounds ==
    /\ NeighborLoopEnded =>
           LET m == Cardinality(replace_mask)
               q == queue_train_size
               nr == NeighborRounds
           IN  /\ Len(nr) = CeilDiv(m, q)
               /\ \A j \in DOMAIN nr :
                      /\ nr[j].explicit =
                             { s \in replace_mask :
                                 /\ (j - 1) * q < Rank(s, replace_mask)
                                 /\ Rank(s, replace_mask) <= j * q }
                      /\ Cardinality(nr[j].explicit) =
                             IF j < Len(nr) THEN q ELSE m - (Len(nr) - 1) * q
               /\ \A s \in replace_mask :
                      Cardinality({ j \in DOMAIN nr :
                                      s \in nr[j].explicit }) = 1
    /\ (/\ pc = "return"
        /\ outcome # "fit_raised"
        /\ neighbor_retrain_idx # << >>) =>
           /\ Len(NeighborRounds) =
                  CeilDiv(Len(neighbor_retrain_idx), queue_train_size)
           /\ replace_mask = {}

\* C12 (as claimed): a call of train_models_and_precompute that raises
\* leaves the hyperparameter tables and every queue array as they were.
C12_ChunkAtomic ==
    [][ (outcome' = "fit_raised" /\ outcome # "fit_raised") =>
            /\ q_hyper' = q_hyper
            /\ hyperparameter_storage_set' = hyperparameter_storage_set
            /\ queue_neighbor_idx' = queue_neighbor_idx
            /\ queue_obs' = queue_obs ]_vars

\* C13: the queue of a slot that has been retrained holds queue_size
\* entries, every one written by the slot's latest retrain, and every
\* coefficient b lies in [0, 1], in each interpolation mode.
C13_QueueWhollyRewritten ==
    \A s \in Slots :
        filled_at[s] # 0 =>
            /\ Len(queue_B[s]) = queue_size
            /\ Len(queue_fill[s]) = queue_size
            /\ \A i \in 1 .. queue_size :
                   /\ queue_fill[s][i] = filled_at[s]
                   /\ 0 <= queue_B[s][i]
                   /\ queue_B[s][i] <= 2 * HalfScale

\* C13 witness: a slot with more than one queue entry was retrained twice
\* under SMOTE while another slot was retrained once.
C13_Witness ==
    /\ interp_mode = "smote"
    /\ queue_size > 1
    /\ \E s, u \in Slots : filled_at[s] = 2 /\ filled_at[u] = 1

\* C14 (as claimed): a chunk of the neighbor-invalidation or exhaustion
\* stage whose explicit slots number e < queue_train_size is filled: no
\* fill computation raises, and the round fits the union of the explicit
\* slots and k = queue_train_size - e valid slots none of whose counters
\* is below the counter of a valid slot not chosen.
C14_FillTopK ==
    /\ outcome # "raised"
    /\ \A r \in DOMAIN rounds :
           LET R == rounds[r]
               e == Cardinality(R.explicit)
               V == Valid(total_sample_count)
           IN  (R.trigger \in { "neighbor", "exhaustion" }
                /\ e < queue_train_size) =>
                   \E F \in SUBSET V :
                       /\ Cardinality(F) = queue_train_size - e
                       /\ \A a \in F : \A b \in V \ F :
                              R.counter[a] >= R.counter[b]
                       /\ R.idx = R.explicit \cup F

\* C15: the round of the newest slot is a cold fit (nothing loaded, the
\* configured epochs), neighbor rounds are warm refinements (loaded, one
\* epoch, update enabled), exhaustion rounds are inference (loaded, update
\* disabled), and a step that follows an add has cold-fit the newest slot
\* by the time it leaves the newest-point stage.
C15_FitModeByTrigger ==
    /\ \A r \in DOMAIN rounds :
           LET R == rounds[r]
           IN  /\ R.trigger = "newest" =>
                      /\ ~R.loaded
                      /\ R.epochs = "GP_EPOCHS"
                      /\ R.idx = {newest_idx}
               /\ R.trigger = "neighbor" =>
                      R.loaded /\ R.epochs = "1" /\ R.update
               /\ R.trigger = "exhaustion" => R.loaded /\ ~R.update
    /\ (/\ num_added > replayed_at
        /\ \/ pc \in { "neighbor", "resolve", "read", "advance" }
           \/ (pc = "return" /\ outcome = "batch")) =>
           \E r \in DOMAIN rounds :
               rounds[r].trigger = "newest" /\ rounds[r].idx = {newest_idx}

\* C15 witness: one step following an add made a round of each trigger.
C15_Witness ==
    /\ pc = "return"
    /\ outcome = "batch"
    /\ num_added > replayed_at
    /\ \A g \in { "newest", "neighbor", "exhaustion" } :
           \E r \in DOMAIN rounds : rounds[r].trigger = g

\* The configuration is the one the tables were allocated under.
SameConfig == storage_config = << composite_kernel, kernel, mean_type >>

\* The slots of the model of the last save.
SavedIdx == UNION { DOMAIN params[n] : n \in DOMAIN params }

\* C16: under an unchanged configuration a load after a save returns, for
\* every parameter name of the model and every slot of the save that is
\* loaded, the value extracted from the model, and a save leaves the rows
\* of the slots outside idx as they were.
C16_RoundTrip ==
    /\ (last_op.op = "load" /\ SameConfig) =>
           /\ last_op.ok
           /\ \A n \in DOMAIN params :
                  /\ n \in DOMAIN loaded
                  /\ \A s \in last_op.idx \cap SavedIdx :
                         loaded[n][s] = params[n][s]
    /\ (last_op.op = "save" /\ SameConfig) =>
           /\ last_op.ok
           /\ DOMAIN params =
                  ExtractHyperparams(composite_kernel, kernel, mean_type)
           /\ \A a \in DOMAIN q_hyper : \A s \in Slots \ last_op.idx :
                  q_hyper[a][s] = q_before[a][s]

\* C16 witness: the slots just saved are loaded back under a composite rq
\* kernel with a linear mean while another slot keeps an earlier save.
C16_Witness ==
    /\ last_op.op = "load"
    /\ SameConfig
    /\ last_op.idx = SavedIdx
    /\ composite_kernel
    /\ kernel = "rq"
    /\ mean_type = "linear"
    /\ \E a \in DOMAIN q_hyper : \E s \in Slots \ SavedIdx :
           q_hyper[a][s] # Zeros

\* The parameter names of a configuration.
ExpectedNames(comp, kern, mean) ==
    (IF comp
     THEN { "state_base_kernel.lengthscale",
            "action_base_kernel.lengthscale",
            "state_base_kernel.raw_lengthscale",
            "action_base_kernel.raw_lengthscale" }
     ELSE { "covar_module.base_kernel.lengthscale",
            "covar_module.base_kernel.raw_lengthscale" })
    \cup { "likelihood.noise_covar.noise", "covar_module.outputscale",
           "likelihood.noise_covar.raw_noise" }
    \cup (IF kern # "rq" THEN {}
          ELSE IF comp THEN { "covar_module.state_base_kernel.alpha",
                              "covar_module.action_base_kernel.alpha" }
               ELSE { "covar_module.base_kernel.alpha" })
    \cup (IF mean = "linear"
          THEN { "mean_module.weights", "mean_module.bias" }
          ELSE {})
    \cup (IF mean = "constant" THEN { "mean_module.constant" } ELSE {})

\* C17: a load that returns yields exactly the names of the present
\* configuration, and a save under the configuration of the tables writes
\* values of exactly these names.
C17_NamesByConfiguration ==
    /\ (last_op.op = "load" /\ last_op.ok) =>
           DOMAIN loaded =
               ExpectedNames(composite_kernel, kernel, mean_type)
    /\ (last_op.op = "save" /\ SameConfig) =>
           { q_hyper[a][s][1] : a \in DOMAIN q_hyper, s \in last_op.idx } =
               ExpectedNames(composite_kernel, kernel, mean_type)

\* C17 witness: a load under a linear mean and a kernel other than rq, after
\* a save.
C17_Witness ==
    /\ last_op.op = "load"
    /\ last_op.ok
    /\ SameConfig
    /\ mean_type = "linear"
    /\ kernel # "rq"
    /\ DOMAIN params # {}

\* C18 (as claimed): a save or load under a configuration other than the
\* one the tables were allocated under fails.
C18_MismatchFailsLoudly ==
    (last_op.op \in { "save", "load" } /\ ~SameConfig) => ~last_op.ok

\* C19: once allocated the tables stay allocated with the same parameter
\* tables, a stored value changes only for a slot of the round being fit,
\* and the tables are allocated when the first round completes.
C19_StoreAllocatedOnce ==
    [][ /\ hyperparameter_storage_set =>
               /\ hyperparameter_storage_set'
               /\ DOMAIN q_hyper' = DOMAIN q_hyper
               /\ storage_config' = storage_config
               /\ \A a \in DOMAIN q_hyper : \A s \in Slots :
                      q_hyper'[a][s] # q_hyper[a][s] =>
                          \E r \in PendingRound : s \in r.idx
        /\ Len(rounds') > Len(rounds) => hyperparameter_storage_set' ]_vars

\* C19 witness: a round was fit while a slot outside it kept its stored
\* hyperparameters.
C19_Witness ==
    /\ hyperparameter_storage_set
    /\ \E r \in DOMAIN rounds :
           /\ rounds[r].trigger # "init"
           /\ \E s \in Slots \ Retrained :
              \E a \in DOMAIN q_hyper : q_hyper[a][s] # Zeros

\* C20: the initialized flag is never unset, run_init is entered only while
\* it is unset and so at most once, nothing past the start checks runs while
\* it is unset, and a call made below replay_starts only returns None and
\* leaves it unset.
C20_PhaseOrder ==
    [][ /\ initialized => initialized'
        /\ (pc' = "run_init" /\ pc # "run_init") => ~initialized
        /\ pc' \notin { "idle", "return" } => initialized'
        /\ (pc = "idle" /\ pc' # "idle" /\ num_added < replay_starts) =>
               /\ pc' = "return"
               /\ outcome' = "none"
               /\ ~initialized'
        /\ outcome' = "none" => (~initialized' /\ counter' = << >>) ]_vars

\* C20 witness: a call on a Ready buffer, after an earlier call returned a
\* batch, is past the start checks without a run_init round.
C20_Witness ==
    /\ pc = "resolve"
    /\ initialized
    /\ replayed_at > 0
    /\ \A r \in DOMAIN rounds : rounds[r].trigger # "init"

\* The position of a stage of replay() in the order of the source.
Phase(p) ==
    CASE p = "idle" -> 0
      [] p = "run_init" -> 1
      [] p = "newest" -> 2
      [] p = "neighbor" -> 3
      [] p = "resolve" -> 4
      [] p = "read" -> 5
      [] p = "advance" -> 6
      [] p = "return" -> 7

\* The stages in which train_models_and_precompute is called.
FittingStages == { "run_init", "newest", "neighbor", "resolve" }

\* C21: a step moves through sampling, the fitting rounds (newest point,
\* neighbor invalidation, exhaustion), the resolution of the final offsets
\* and the read, the counter advance and the return in this order; the slots
\* are sampled before any round of a Ready step, a queue is written only in
\* a fitting stage and so never after the read, and a counter grows only
\* after the read.
C21_StepPhaseOrder ==
    [][ /\ pc' # pc =>
               \/ Phase(pc') > Phase(pc)
               \/ (pc = "return" /\ pc' = "idle")
        /\ pc' = "read" => pc = "resolve"
        /\ pc' = "advance" => pc = "read"
        /\ (pc' = "return" /\ outcome' = "batch") => pc = "advance"
        /\ (pc' \in { "newest", "neighbor", "resolve" } /\ pc # pc') =>
               Len(sample_indices') = ReplayBatchSize
        /\ (Len(rounds') > Len(rounds) /\ pc # "run_init") =>
               /\ pc \in FittingStages
               /\ sample_indices # << >>
               /\ sample_indices' = sample_indices
        /\ (initialized /\ (queue_obs' # queue_obs
                            \/ queue_neighbor_idx' # queue_neighbor_idx
                            \/ q_hyper' # q_hyper)) =>
               pc \in FittingStages
        /\ (\E s \in DOMAIN counter : counter'[s] > counter[s]) =>
               pc = "advance"
        /\ pc = "advance" =>
               \A i \in DOMAIN sample_indices :
                   served[i] = queue_obs'[sample_indices[i]] ]_vars

\* C21 witness: a Ready step that made a round for each trigger has read the
\* queues and is about to advance the counters.
C21_Witness ==
    /\ pc = "advance"
    /\ replayed_at > 0
    /\ \A g \in { "newest", "neighbor", "exhaustion" } :
           \E r \in DOMAIN rounds : rounds[r].trigger = g
    /\ \A r \in DOMAIN rounds : rounds[r].trigger # "init"

\* The nominal pool size: furthest_neighbor - 1, or kneighbors - 1 when
\* furthest_neighbor is unset.
NominalPool ==
    (IF furthest_neighbor # << >> THEN furthest_neighbor[1] ELSE kneighbors)
        - 1

\* C22: every neighbor position stored for a refit slot lies among the
\* positions 1 .. furthest_neighbor - 1 of the slot's neighbor list (1 ..
\* kneighbors - 1 when furthest_neighbor is unset), never position 0; a draw
\* is made without replacement exactly when the nominal pool size exceeds
\* queue_size, and then the queue_size positions stored for a slot are
\* pairwise distinct.
C22_DrawFromPool ==
    /\ \A s \in DOMAIN interp_indices :
           /\ Len(interp_indices[s]) = queue_size
           /\ \A i \in 1 .. queue_size :
                  /\ interp_indices[s][i] >= 1
                  /\ interp_indices[s][i] <= NominalPool
                  /\ interp_indices[s][i] <= kneighbors - 1
           /\ NominalPool > queue_size =>
                  \A i, j \in 1 .. queue_size :
                      interp_indices[s][i] = interp_indices[s][j] => i = j
    /\ last_draw.idx # {} =>
           /\ ~last_draw.replace <=> NominalPool > queue_size
           /\ last_draw.ok => DOMAIN interp_indices = last_draw.idx

\* C22 witness: with furthest_neighbor unset a draw without replacement has
\* stored more than one neighbor for a slot.
C22_Witness ==
    /\ last_draw.ok
    /\ last_draw.idx # {}
    /\ ~last_draw.replace
    /\ furthest_neighbor = << >>
    /\ queue_size > 1

\* C23 (as claimed): whenever the pool k[1:furthest_neighbor] of a slot has
\* fewer than queue_size elements the draw is made with replacement and
\* does not raise.
C23_SmallPoolReplaces ==
    (/\ last_draw.idx # {}
     /\ Cardinality(Pool(kneighbors, furthest_neighbor)) < queue_size) =>
        /\ last_draw.replace
        /\ last_draw.ok

\* C24 (as claimed): with delta targets the next observation stored is the
\* predicted delta added to the slot's own stored observation; without, it
\* is the prediction.
C24_DeltaAddedToAnchor ==
    queue_entry # << >> =>
        queue_entry.new_obs =
            IF use_delta
            THEN 2 * HalfScale * (queue_entry.anchor + queue_entry.pred)
            ELSE 2 * HalfScale * queue_entry.pred

\* C24 (amended): with delta targets the next observation stored is the
\* predicted delta added to the interpolated observation stored in queue_obs
\* for the same entry, b * anchor + (1 - b) * neighbor; without, it is the
\* prediction.
C24_DeltaAddedToInterpolated ==
    queue_entry # << >> =>
        /\ queue_entry.obs =
               queue_entry.b * queue_entry.anchor
                 + (2 * HalfScale - queue_entry.b) * queue_entry.neighbor
        /\ queue_entry.new_obs =
               IF use_delta
               THEN queue_entry.obs + 2 * HalfScale * queue_entry.pred
               ELSE 2 * HalfScale * queue_entry.pred

\* C24 witness: a delta was predicted for a point interpolated under SMOTE
\* between an anchor and a neighbor with different observations.
C24_Witness ==
    /\ queue_entry # << >>
    /\ use_delta
    /\ interp_mode = "smote"
    /\ queue_entry.anchor # queue_entry.neighbor
    /\ queue_entry.pred # 0
    /\ queue_entry.new_obs # 2 * HalfScale * (queue_entry.anchor
                                              + queue_entry.pred)

\* C25: the exhaustion stage, whose rounds load the stored hyperparameters
\* and fit with the hyperparameter update disabled, leaves every stored
\* hyperparameter of every slot as it was, and a round of it changes the
\* queue arrays of its own slots only.
C25_InferenceKeepsHyperparams ==
    [][ /\ pc = "resolve" =>
               /\ q_hyper' = q_hyper
               /\ hyperparameter_storage_set' = hyperparameter_storage_set
               /\ storage_config' = storage_config
        /\ (Len(rounds') > Len(rounds)
            /\ ~rounds'[Len(rounds')].train
            /\ ~rounds'[Len(rounds')].new_point) =>
               /\ pc = "resolve"
               /\ q_hyper' = q_hyper
               /\ \A s \in Slots \ rounds'[Len(rounds')].idx :
                      /\ queue_obs'[s] = queue_obs[s]
                      /\ queue_neighbor_idx'[s] = queue_neighbor_idx[s] ]_vars

\* C25 witness: an exhaustion round refilled the queue of a slot whose
\* stored hyperparameters were fit to a transition the slot no longer
\* holds, next to a slot it left alone.
C25_Witness ==
    /\ pc = "read"
    /\ \E r \in DOMAIN rounds :
           /\ rounds[r].trigger = "exhaustion"
           /\ rounds[r].idx # Slots
           /\ \E s \in rounds[r].idx : \E a \in DOMAIN q_hyper :
                  /\ q_hyper[a][s] # Zeros
                  /\ q_hyper[a][s][2] # Occupant(s, num_added)
                  /\ queue_obs[s] = Occupant(s, num_added)

\* The stored queue entries or hyperparameters of slot s differ between the
\* two states of a step (only of arrays that exist in both).
SlotWritten(s) ==
    \/ /\ s \in DOMAIN queue_obs
       /\ s \in DOMAIN queue_obs'
       /\ queue_obs'[s] # queue_obs[s]
    \/ /\ s \in DOMAIN queue_neighbor_idx
       /\ s \in DOMAIN queue_neighbor_idx'
       /\ queue_neighbor_idx'[s] # queue_neighbor_idx[s]
    \/ \E a \in DOMAIN q_hyper \cap DOMAIN q_hyper' :
           q_hyper'[a][s] # q_hyper[a][s]

\* The slots of the sample batch.
Sampled == { sample_indices[i] : i \in DOMAIN sample_indices }

\* C26: inside replay() the queue entries and the stored hyperparameters of
\* a slot are written only by a fitting round that holds the slot, and that
\* round is then among the rounds of the step unless it raised; a counter
\* changes only by the reset of a slot some round of the step held or by the
\* advance of a sampled slot at the end of the step; and a step without any
\* fitting round changes neither the mask nor the update flag.
C26_WritesOnlyInRounds ==
    [][ pc # "idle" =>
          /\ \A s \in Slots :
                 SlotWritten(s) =>
                     /\ \E r \in PendingRound : s \in r.idx
                     /\ outcome' # "fit_raised" =>
                            /\ Len(rounds') = Len(rounds) + 1
                            /\ s \in rounds'[Len(rounds')].idx
          /\ \A s \in DOMAIN counter :
                 counter'[s] # counter[s] =>
                     \/ /\ counter'[s] = 0
                        /\ \E r \in DOMAIN rounds' : s \in rounds'[r].idx
                     \/ /\ pc = "advance"
                        /\ s \in Sampled
                        /\ counter'[s] = counter[s] + Bincount(sample_indices, s)
          /\ (\/ replace_mask' # replace_mask
              \/ check_update_neighbors' # check_update_neighbors) =>
                 rounds' # << >> ]_vars

\* C26 witness: a step that held a fitting round has returned a batch in
\* which a slot of no round was sampled: its queue still holds the samples
\* of an earlier fit, and its counter advanced.
C26_Witness ==
    /\ pc = "return"
    /\ outcome = "batch"
    /\ rounds # << >>
    /\ \E s \in Sampled :
           /\ \A r \in DOMAIN rounds : s \notin rounds[r].idx
           /\ queue_obs[s] # 0
           /\ counter[s] = counter_resolved[s] + Bincount(sample_indices, s)

\* C27 (as claimed): a fitting round, completed or begun, happens only while
\* the update flag is set or when a sampled slot's resolved offset reaches
\* queue_size; and, unless the fitter fails, a step with such exhausted
\* slots runs an exhaustion round that holds every one of them and refills
\* their queues.
C27_RefitOnlyWhenTriggered ==
    [][ /\ (Len(rounds') > Len(rounds) \/ outcome' = "fit_raised") =>
               \/ check_update_neighbors
               \/ pc = "resolve" /\ ExhaustedIdx # {}
        /\ (pc = "resolve" /\ ExhaustedIdx # {} /\ outcome' # "fit_raised") =>
               /\ Len(rounds') = Len(rounds) + 1
               /\ rounds'[Len(rounds')].trigger = "exhaustion"
               /\ ExhaustedIdx \subseteq rounds'[Len(rounds')].idx
               /\ \A s \in ExhaustedIdx :
                      queue_obs'[s] = Occupant(s, num_added) ]_vars

\* The stages of replay() that run a chunking loop.
ChunkLoops == { "run_init", "neighbor" }

\* C28: every round of the loop of run_init and of the neighbor-invalidation
\* loop moves the cursor forward by the size of its explicit chunk, which is
\* at least one slot, and never past the number of slots to train; and a
\* loop that was entered is left (its cursor reaches the end or a round
\* raises).
C28_ChunkLoopsTerminate ==
    /\ [][ (pc \in ChunkLoops /\ Len(rounds') > Len(rounds)) =>
               LET total == IF pc = "run_init" THEN total_sample_count
                            ELSE Len(neighbor_retrain_idx)
               IN  /\ train_idx' >= train_idx + 1
                   /\ train_idx' <= total
                   /\ train_idx' - train_idx =
                          Cardinality(rounds'[Len(rounds')].explicit) ]_vars
    /\ (pc \in ChunkLoops) ~> (pc \notin ChunkLoops)

\* C28 witness: both loops have ended after more than one round each.
C28_Witness ==
    /\ pc = "return"
    /\ outcome = "batch"
    /\ Cardinality({ r \in DOMAIN rounds : rounds[r].trigger = "init" }) > 1
    /\ Cardinality({ r \in DOMAIN rounds : rounds[r].trigger = "neighbor" }) > 1

\* C29: the weights returned for a batch are as many as the entries read,
\* each the stored weight times one common factor, and they sum to the
\* number of entries read (robust_weights holds the numerators over the
\* denominator of normalizing_factor).
C29_WeightsSumToBatch ==
    robust_weights # << >> =>
        LET N == Len(sample_indices)
        IN  /\ Len(unnormalized_weights) = N
            /\ Len(robust_weights) = N
            /\ normalizing_factor[2] > 0
            /\ SumWeights(robust_weights) = N * normalizing_factor[2]
            /\ \A i, j \in 1 .. N :
                   robust_weights[i] * unnormalized_weights[j] =
                       robust_weights[j] * unnormalized_weights[i]

\* C29 witness: a batch with a repeated slot and unequal stored weights was
\* normalized.
C29_Witness ==
    /\ robust_weights # << >>
    /\ \E i, j \in DOMAIN sample_indices :
           /\ i # j
           /\ sample_indices[i] = sample_indices[j]
           /\ unnormalized_weights[i] # unnormalized_weights[j]
           /\ robust_weights[i] # robust_weights[j]

\* C30: every offset replay() reads the queues at, one per request of the
\* sample batch, lies in 0 .. queue_size - 1.
C30_ReadOffsetsInQueue ==
    pc \in { "advance", "return" } /\ outcome \in { "pending", "batch" } =>
        /\ DOMAIN sample_idx = DOMAIN sample_indices
        /\ \A i \in DOMAIN sample_idx :
               sample_idx[i] \in 0 .. (queue_size - 1)

\* C30 witness: the queues were read for a batch in which the unwrapped
\* offset of a request lay beyond queue_size.
C30_Witness ==
    /\ pc = "advance"
    /\ warned
    /\ \E i \in DOMAIN sample_idx :
           /\ offsets[i] > queue_size
           /\ sample_idx[i] = offsets[i] % queue_size

\* Some slot is requested more than queue_size times in the sample batch.
OverRequested ==
    \E s \in Slots : Bincount(sample_indices, s) > queue_size

\* C31 (as claimed): a replay step that sampled a batch wraps an offset, and
\* signals the warning, exactly if some slot is requested more than
\* queue_size times (the fitter failing apart); the offsets of a slot
\* requested at most queue_size times are read unwrapped, below queue_size.
C31_WrapIffOverRequested ==
    /\ (pc = "return" /\ outcome \in { "batch", "raised" }
        /\ sample_indices # << >>) =>
           (warned <=> OverRequested)
    /\ pc = "advance" =>
           \A i \in DOMAIN sample_indices :
               Bincount(sample_indices, sample_indices[i]) <= queue_size =>
                   /\ offsets[i] < queue_size
                   /\ sample_idx[i] = offsets[i]

\* C32: the queue entries read for a batch were not served by an earlier
\* step since the slot's queue was last refilled, and two requests of one
\* batch read the same entry of a slot only when an offset of the slot was
\* wrapped.
C32_NoEntryServedTwice ==
    pc = "advance" =>
        /\ \A i \in DOMAIN sample_indices :
               sample_idx[i] \notin consumed[sample_indices[i]]
        /\ \A i, j \in DOMAIN sample_indices :
               (/\ i # j
                /\ sample_indices[i] = sample_indices[j]
                /\ sample_idx[i] = sample_idx[j]) =>
                   (offsets[i] >= queue_size \/ offsets[j] >= queue_size)

\* C32 witness: a step reads entries of a slot that continue behind the
\* entries an earlier step was served from the same fill of its queue.
C32_Witness ==
    /\ pc = "advance"
    /\ \E i \in DOMAIN sample_indices :
           /\ consumed[sample_indices[i]] # {}
           /\ \A o \in consumed[sample_indices[i]] : o < sample_idx[i]

\* No table of the store holds a written value for slot s.
NeverSaved(s) == \A a \in DOMAIN q_hyper : q_hyper[a][s] = Zeros

\* C33 (as claimed): a round that loads the stored hyperparameters of its
\* slots (new_point = False) holds only slots whose hyperparameters were
\* written before the round.
C33_LoadOnlyAfterSave ==
    [][ (Len(rounds') > Len(rounds) /\ rounds'[Len(rounds')].loaded) =>
            \A s \in rounds'[Len(rounds')].idx : ~NeverSaved(s) ]_vars

\* C34 (as claimed): whenever a top-k fill is computed, in the neighbor
\* loop or in the exhaustion refill, the number k of fill slots asked for is
\* at most total_sample_count, and no replay step ends with np.argpartition
\* raising.
C34_FillCountWithinValid ==
    /\ (pc = "neighbor" /\ train_idx < Len(neighbor_retrain_idx)) =>
           Remaining(queue_train_size, Cardinality(NeighborIdxBatch))
               <= total_sample_count
    /\ (pc = "resolve" /\ ExhaustedIdx # {}) =>
           Remaining(queue_train_size, Cardinality(ExhaustedIdx))
               <= total_sample_count
    /\ outcome # "raised"

\* C35 (as claimed): a replay step samples without running run_init only
\* when the hyperparameter store is allocated and every slot that existed
\* when run_init ran has been fit.
C35_FailedInitNotReady ==
    [][ (pc = "idle" /\ pc' \in { "newest", "resolve" }) =>
            /\ hyperparameter_storage_set
            /\ \A s \in Valid(n_at_init) : ~NeverSaved(s) ]_vars
====
